---- MODULE Spec2Model ----
(***************************************************************************)
(* The metadata pipeline of crawl-py: the ingest coordinator               *)
(* (app/preprocess.py), the transcription coordinators (app/transcribe.py, *)
(* app/transcribe_improved.py) and the JSONL ledger file they share; and   *)
(* the crawl side: the download tracker (app/crawler/db.py, app/crawl.py)  *)
(* with the two crawl programs that read and write it.                     *)
(***************************************************************************)
EXTENDS Integers, Sequences, FiniteSets, TLC

\* ------------------------------------------------------------------ bounds

\* Number of distinct raw audio contents; each has one canonical (normalized) form.
NumClips == 2
\* Number of coordinator runs (ingest or transcription) in one behaviour.
MaxRuns == 2

\* Worker processes of the transcription pool.
PoolSize == 2
\* Number of distinct video ids the search can return.
NumVideos == 2
\* Longest list of entries one search returns.
MaxSearch == 2
\* Search queries one run of the crawl script goes through.
NumQueries == 2
\* Longest list of directories given to merge_directory_paths.
MaxDirs == 2

\* ------------------------------------------------------------ plain values

\* Python's None (calculate_shasum's failure value, a worker's absent result).
None == -2
\* A file that does not exist on disk.
NoFile == 0
\* A file that exists and cannot be opened or read.
Unreadable == -3
\* A key that a JSON object does not carry (dict.get gives None for it).
Absent == -1
\* The empty string of a transcription placeholder.
EmptyStr == 0

\* File contents: raw contents 1..NumClips, canonical contents above them.
Contents == 1 .. (2 * NumClips)

\* Input file names, as sequences of segments: "_" is the separator character and
\* every other segment is a non-empty run without underscores.
NameAX == <<"a", "_", "x.mp3">>
NameAY == <<"a", "_", "y.mp3">>
NameB == <<"b.mp3">>
\* The candidate paths in ascending order, as sorted(set(...)) leaves them.
NameOrder == <<NameAX, NameAY, NameB>>
InputNames == {NameOrder[i] : i \in 1 .. Len(NameOrder)}

\* --------------------------------------------------------- pure functions

\* filename.count('_')
CountUnderscores(name) == Cardinality({i \in 1 .. Len(name) : name[i] = "_"})

\* re.match(r'^(.+)_([^_]+)$', filename): the last segment is not a separator,
\* the one before it is, and something precedes that separator.
SplitMatches(name) ==
    /\ Len(name) >= 3
    /\ name[Len(name)] # "_"
    /\ name[Len(name) - 1] = "_"

\* sanitize_filename: (safe_id, original_title)
sanitize_filename(name) ==
    IF CountUnderscores(name) <= 3 /\ SplitMatches(name)
    THEN <<SubSeq(name, 1, Len(name) - 2), <<name[Len(name)]>>>>
    ELSE <<name, <<>>>>

\* f"data/{safe_id}.wav"
FileRef(safe_id) == <<"data/">> \o safe_id \o <<".wav">>

\* The file_name that ingest derives for an input path.
RefOf(name) == FileRef(sanitize_filename(name)[1])

\* ffmpeg -ac 1 -ar 16000 -acodec pcm_s16le: a raw content goes to its canonical
\* form; a content that is already canonical is reproduced as it is.
Normalize(c) == IF c > NumClips THEN c ELSE c + NumClips

\* hashlib.sha256(...).hexdigest(): distinct contents have distinct digests.
Sha256(c) == 100 + c

\* calculate_shasum: the digest, or None when the file cannot be opened or read.
calculate_shasum(content) ==
    IF content \in {NoFile, Unreadable} THEN None ELSE Sha256(content)

\* A check of the hash that never fires (faulty variant of HashFailed).
HashFailedNever(h) == FALSE
\* `if not current_hash` (line 127)
HashFailed(h) == h = None

\* next((entry for entry in metadata if entry.get('file_name') == ref), None)
HasEntry(md, ref) == \E i \in 1 .. Len(md) : md[i].file_name = ref
ExistingEntry(md, ref) ==
    md[CHOOSE i \in 1 .. Len(md) :
          /\ md[i].file_name = ref
          /\ \A j \in 1 .. (i - 1) : md[j].file_name # ref]

\* `existing_entry and existing_entry.get('shasum') == current_hash` (line 132)
AlreadyProcessed(md, ref, h) ==
    HasEntry(md, ref) /\ ExistingEntry(md, ref).shasum = h

\* The metadata entry of lines 142-147.
NewEntry(ref, shasum, title) ==
    [file_name |-> ref, shasum |-> shasum, original_filename |-> title,
     transcription |-> EmptyStr, text |-> Absent, class_labels |-> Absent]

\* Lines 150-153: drop every entry with the same file_name.
RemoveEntry(md, ref) == SelectSeq(md, LAMBDA e : e.file_name # ref)

\* An append that keeps the existing entries (faulty variant of Upsert).
UpsertNoRemove(md, entry) == Append(md, entry)
\* Lines 149-156: remove any existing entry with the same file_name, append.
Upsert(md, entry) == Append(RemoveEntry(md, entry.file_name), entry)

\* No two records of a ledger carry the same file_name.
UniqueRefs(md) ==
    \A i, j \in 1 .. Len(md) : md[i].file_name = md[j].file_name => i = j

\* The ledger file: whether it exists, its complete lines, and whether it holds
\* a line that is not valid JSON (a record cut short).
MissingLedger == [exists |-> FALSE, lines |-> <<>>, corrupt |-> FALSE]
EmptyLedger == [exists |-> TRUE, lines |-> <<>>, corrupt |-> FALSE]

\* preprocess.py lines 100-107: a missing file gives [], and so does any
\* exception while reading (the list comprehension never assigns).
IngestLoad(file) ==
    IF file.exists /\ ~file.corrupt THEN file.lines ELSE <<>>

\* The contents a reader of the ledger file gets: its lines and whether one of
\* them is cut short. A missing file reads like an empty one.
LedgerView(file) == [lines |-> file.lines, corrupt |-> file.corrupt]

\* The file after its first k lines of `md` were written.
Written(md, k) == [exists |-> TRUE, lines |-> SubSeq(md, 1, k), corrupt |-> FALSE]

\* The file after the first k lines of `md` and a part of the next one reached it:
\* the buffered writer flushes when its buffer is full, not at line ends.
PartlyWritten(md, k) ==
    [exists |-> TRUE, lines |-> SubSeq(md, 1, k), corrupt |-> TRUE]

\* The paths in descending order (faulty variant of SortedPaths).
ReversedPaths(S) ==
    SelectSeq([i \in 1 .. Len(NameOrder) |-> NameOrder[Len(NameOrder) + 1 - i]],
              LAMBDA n : n \in S)
\* sorted(set(merged_paths)) restricted to the paths given.
SortedPaths(S) == SelectSeq(NameOrder, LAMBDA n : n \in S)

\* ------------------------------------------------- candidate enumeration

\* The paths that can exist below the working directory, as Path.parts; a part
\* is the sequence of the pieces its name has between dots. They are listed in
\* the ascending order of Path comparison (part by part, by code point, so that
\* "B.WAV" precedes "a.mp3" and "sub" precedes "sub.ogg").
PathOrder ==
    << << <<"other">> >>,
       << <<"other">>, <<"e", "M4A">> >>,
       << <<"raw">> >>,
       << <<"raw">>, <<"B", "WAV">> >>,
       << <<"raw">>, <<"a", "mp3">> >>,
       << <<"raw">>, <<"notes", "txt">> >>,
       << <<"raw">>, <<"sub">> >>,
       << <<"raw">>, <<"sub">>, <<"c", "flac">> >>,
       << <<"raw">>, <<"sub", "ogg">> >> >>
AllPaths == {PathOrder[i] : i \in 1 .. Len(PathOrder)}

\* Those of them that are directories when they exist; the others are regular
\* files. One directory has a name that ends like an audio file.
Directories ==
    { << <<"other">> >>, << <<"raw">> >>, << <<"raw">>, <<"sub">> >>,
      << <<"raw">>, <<"sub", "ogg">> >> }

\* Path.parent
Parent(p) == SubSeq(p, 1, Len(p) - 1)

\* The directory trees: a path exists only inside an existing directory.
Trees ==
    {T \in SUBSET AllPaths :
        \A p \in T : Len(p) > 1 => (Parent(p) \in T /\ Parent(p) \in Directories)}

\* The paths a caller may pass as a directory: directories, also nested in one
\* another, and a regular file.
DirArgs ==
    { << <<"other">> >>, << <<"raw">> >>, << <<"raw">>, <<"sub">> >>,
      << <<"raw">>, <<"a", "mp3">> >> }
DirLists == UNION {[1 .. n -> DirArgs] : n \in 0 .. MaxDirs}

\* dir_path.is_dir()
is_dir(T, d) == d \in T /\ d \in Directories

\* dir_path.rglob('*'): every existing path below d, files and directories.
rglob(T, d) == {p \in T : Len(p) > Len(d) /\ SubSeq(p, 1, Len(d)) = d}

\* Path.suffix without its dot: the last piece of the name when the name has a
\* dot, and "" when it has none.
suffix(p) ==
    IF Len(p[Len(p)]) >= 2 THEN p[Len(p)][Len(p[Len(p)])] ELSE ""

\* str.lower() on the suffixes that occur.
lower(str) ==
    CASE str = "WAV" -> "wav"
      [] str = "M4A" -> "m4a"
      [] OTHER -> str

\* supported_extensions (line 17), without the dots.
supported_extensions == {"wav", "mp3", "flac", "ogg", "m4a"}

\* A suffix test that does not fold the case (faulty variant of IsAudio).
IsAudioCaseSensitive(p) == suffix(p) \in supported_extensions
\* p.suffix.lower() in supported_extensions (line 34)
IsAudio(p) == lower(suffix(p)) \in supported_extensions

\* Lines 20-29: merged_paths after the loop over the first k directories, as a
\* list that keeps what every rglob added, in sorted order per directory.
RECURSIVE Extended(_, _, _)
Extended(T, dirs, k) ==
    IF k = 0 THEN <<>>
    ELSE Extended(T, dirs, k - 1)
            \o SelectSeq(PathOrder, LAMBDA p : p \in rglob(T, dirs[k]))

\* The value a call leaves: whether it was made, whether it raised ValueError,
\* and the list it returned.
NotCalled == [called |-> FALSE, raised |-> FALSE, paths |-> <<>>]
Raised == [called |-> TRUE, raised |-> TRUE, paths |-> <<>>]
Returned(ps) == [called |-> TRUE, raised |-> FALSE, paths |-> ps]

\* merge_directory_paths (lines 16-35): ValueError at the first path that is
\* not a directory; else set() drops the repeats, sorted() orders the paths and
\* the comprehension keeps those with an audio suffix.
merge_directory_paths(T, dirs) ==
    IF \E k \in 1 .. Len(dirs) : ~is_dir(T, dirs[k]) THEN Raised
    ELSE LET all == Extended(T, dirs, Len(dirs))
             distinct == {all[i] : i \in 1 .. Len(all)}
             ordered == SelectSeq(PathOrder, LAMBDA p : p \in distinct)
         IN  Returned(SelectSeq(ordered, IsAudio))

\* --------------------------------------------------- transcription helpers

\* Python truthiness of a value read with entry.get(key): None (an absent key)
\* and '' are falsy.
Falsy(v) == v = Absent \/ v = EmptyStr \/ v = None

\* The text the speech-to-text operation gives for an audio file, named after
\* the first input name that derives the file's file_name.
TextOf(ref) ==
    CHOOSE i \in 1 .. Len(NameOrder) :
        /\ RefOf(NameOrder[i]) = ref
        /\ \A j \in 1 .. (i - 1) : RefOf(NameOrder[j]) # ref

\* A selection that takes every entry (faulty variant of ToTranscribe).
ToTranscribeAll(md) == [i \in 1 .. Len(md) |-> i]
\* transcribe.py lines 130-133: [entry for entry in metadata
\*                               if not entry.get('transcription')],
\* as the positions of those entries in metadata.
ToTranscribe(md) ==
    SelectSeq([i \in 1 .. Len(md) |-> i], LAMBDA i : Falsy(md[i].transcription))

\* transcribe_improved.py lines 102-105: the same test on the key 'text'.
ToTranscribeImproved(md) ==
    SelectSeq([i \in 1 .. Len(md) |-> i], LAMBDA i : Falsy(md[i].text))

\* A merge that gives up at the first absent result (faulty variant of MergeZip).
RECURSIVE MergeZipUntilNone(_, _, _, _)
MergeZipUntilNone(md, todoIdx, res, k) ==
    IF k > Len(todoIdx) \/ Falsy(res[k]) THEN md
    ELSE MergeZipUntilNone([md EXCEPT ![todoIdx[k]].transcription = res[k]],
                           todoIdx, res, k + 1)

\* A merge that pairs the results with the entries in opposite order (faulty
\* variant of MergeZip).
RECURSIVE MergeZipCrossed(_, _, _, _)
MergeZipCrossed(md, todoIdx, res, k) ==
    IF k > Len(todoIdx) THEN md
    ELSE MergeZipCrossed(
            IF Falsy(res[k]) THEN md
            ELSE [md EXCEPT ![todoIdx[Len(todoIdx) + 1 - k]].transcription = res[k]],
            todoIdx, res, k + 1)

\* transcribe.py lines 146-148: zip(to_transcribe, transcriptions); a truthy
\* transcription is stored in the entry it was dispatched for.
RECURSIVE MergeZip(_, _, _, _)
MergeZip(md, todoIdx, res, k) ==
    IF k > Len(todoIdx) THEN md
    ELSE MergeZip(IF Falsy(res[k]) THEN md
                  ELSE [md EXCEPT ![todoIdx[k]].transcription = res[k]],
                  todoIdx, res, k + 1)

\* transcribe_improved.py lines 37-42: the entry a worker builds and appends.
WorkerEntry(ref, text) ==
    [file_name |-> ref, shasum |-> Absent, original_filename |-> <<"<absent>">>,
     transcription |-> Absent, text |-> text, class_labels |-> 1]

\* file_name_to_entry[name]: a dict comprehension keeps the last entry of a name.
LastIndexOf(md, ref) ==
    CHOOSE i \in 1 .. Len(md) :
        /\ md[i].file_name = ref
        /\ \A j \in (i + 1) .. Len(md) : md[j].file_name # ref

\* transcribe_improved.py lines 127-130: entry.update(worker entry) for every
\* worker result that is not None. A result is None or the text of the entry.
RECURSIVE MergeUpdate(_, _, _, _)
MergeUpdate(md, todoIdx, res, k) ==
    IF k > Len(todoIdx) THEN md
    ELSE MergeUpdate(
            IF res[k] = None THEN md
            ELSE [md EXCEPT ![LastIndexOf(md, md[todoIdx[k]].file_name)] =
                     [@ EXCEPT !.text = res[k], !.class_labels = 1]],
            todoIdx, res, k + 1)

\* ------------------------------------------------------------------- state

VARIABLES
    fs,          \* input directories: name -> content, NoFile or Unreadable
    ledgerFile,  \* metadata.jsonl on disk
    prog,        \* the coordinator that is running: "none", "ingest", ...
    pc,          \* its position
    metadata,    \* its in-memory ledger
    paths,       \* raw_audio_paths of the ingest run
    idx,         \* index of the candidate the ingest loop is at
    wr,          \* number of lines the running save has written
    runs,        \* coordinator runs started so far
    lastLog,     \* the last message the running coordinator logged
    normCalls,   \* the running ingest's calls of convert_audio_to_wav: input
                 \* name, result, content of the output file
    removedNames,\* names whose source file this run removed
    loadedCorrupt,\* the running coordinator loaded a ledger with a malformed line
    save,        \* the last save begun: file before it, lines it is to write
    hist,        \* the last completed ingest run: paths, ledger after it, survivors
    rerun,       \* this ingest run repeats the previous one with nothing in between
    todo,        \* to_transcribe, as positions in metadata
    status,      \* per dispatched file: "queued", "running", "appending", "done"
    results,     \* per dispatched file: what its worker returned
    loaded,      \* the ledger as the transcription run loaded it
    overtook,    \* in the running pool, a worker returned before an earlier one
    lastRun,     \* the coordinator started last
    ended        \* how it ended: "running", "returned", "killed", "raised_..."

pipelineVars ==
    <<fs, ledgerFile, prog, pc, metadata, paths, idx, wr, runs, lastLog,
      normCalls, removedNames, loadedCorrupt, save, hist, rerun,
      todo, status, results, loaded, overtook, lastRun, ended>>

VARIABLES
    tracker,     \* the crawl program whose tracker this behaviour follows
    store,       \* its tracker database: whether the table exists, its rows
    cprog,       \* the crawl program that is running, or "none"
    cpc,         \* its position
    entries,     \* the video ids of the search results at hand
    ci,          \* index of the entry the loop is at
    query,       \* index of the search query the script is at
    info,        \* info_dict of the download under way: id and title
    audio,       \* ids with a .wav file in the script's audio directory
    completed,   \* per id: downloads of it that reached "finished" in this run
    lastOp,      \* what the last step did with the tracker
    cruns,       \* crawl runs started so far
    cended,      \* how the last crawl run ended
    initFailed   \* init_database of this run met an error

crawlVars ==
    <<tracker, store, cprog, cpc, entries, ci, query, info, audio, completed,
      lastOp, cruns, cended, initFailed>>

VARIABLES
    tree,        \* the paths that exist below the working directory
    directories, \* the argument of merge_directory_paths
    merged_paths \* what the call has given

enumVars == <<tree, directories, merged_paths>>

vars == <<pipelineVars, crawlVars, enumVars>>

poolVars == <<todo, status, results, loaded, overtook>>

NoSave == [active |-> FALSE, old |-> LedgerView(MissingLedger), new |-> <<>>]
NoHist == [valid |-> FALSE, paths |-> <<>>, file |-> MissingLedger, survivors |-> {}]

\* No coordinator has run yet: some input files, and no process.
PipelineIdle ==
    /\ fs \in [InputNames -> Contents \cup {NoFile, Unreadable}]
    /\ prog = "none"
    /\ pc = "idle"
    /\ metadata = <<>>
    /\ paths = <<>>
    /\ idx = 0
    /\ wr = 0
    /\ runs = 0
    /\ lastLog = "none"
    /\ normCalls = {}
    /\ removedNames = {}
    /\ loadedCorrupt = FALSE
    /\ save = NoSave
    /\ hist = NoHist
    /\ rerun = FALSE
    /\ todo = <<>>
    /\ status = <<>>
    /\ results = <<>>
    /\ loaded = <<>>
    /\ overtook = FALSE
    /\ lastRun = "none"
    /\ ended = "never"

\* The pipeline before its first run: there is no ledger file.
PipelineInit == PipelineIdle /\ ledgerFile = MissingLedger

\* ------------------------------------------------------------------ ingest

\* process_audio_files, lines 95-108: load the ledger, start the loop.
StartIngest ==
    /\ pc = "idle"
    /\ runs < MaxRuns
    /\ \E S \in SUBSET InputNames :
          /\ S # {}
          /\ paths' = SortedPaths(S)
    /\ prog' = "ingest"
    /\ pc' = "loop"
    /\ metadata' = IngestLoad(ledgerFile)
    /\ idx' = 1
    /\ wr' = 0
    /\ runs' = runs + 1
    /\ lastLog' = IF ledgerFile.corrupt THEN "error_reading_metadata" ELSE "none"
    /\ normCalls' = {}
    /\ removedNames' = {}
    /\ loadedCorrupt' = ledgerFile.corrupt
    /\ save' = NoSave
    /\ rerun' = (hist.valid /\ paths' = hist.paths)
    /\ todo' = <<>>
    /\ status' = <<>>
    /\ results' = <<>>
    /\ loaded' = <<>>
    /\ overtook' = FALSE
    /\ lastRun' = "ingest"
    /\ ended' = "running"
    /\ UNCHANGED <<crawlVars, enumVars>>
    /\ UNCHANGED <<fs, ledgerFile, hist>>

\* The inputs this run has passed to the normalizer.
NormNames == {c.name : c \in normCalls}

InLoop == prog = "ingest" /\ pc = "loop" /\ idx <= Len(paths)

\* A hash failure that removes the source file (faulty variant of
\* IngestHashFail).
IngestHashFailRemoves ==
    /\ prog = "ingest" /\ pc = "loop" /\ idx <= Len(paths)
    /\ HashFailed(calculate_shasum(fs[paths[idx]]))
    /\ fs' = [fs EXCEPT ![paths[idx]] = NoFile]
    /\ idx' = idx + 1
    /\ lastLog' = "could_not_calculate_hash"
    /\ UNCHANGED <<crawlVars, enumVars>>
    /\ UNCHANGED <<poolVars, lastRun, ended, ledgerFile, prog, pc, metadata,
                   paths, wr, runs, normCalls, removedNames, loadedCorrupt,
                   save, hist, rerun>>

\* Lines 125-129: the input cannot be hashed; log and continue.
IngestHashFail ==
    /\ InLoop
    /\ HashFailed(calculate_shasum(fs[paths[idx]]))
    /\ idx' = idx + 1
    /\ lastLog' = "could_not_calculate_hash"
    /\ UNCHANGED <<crawlVars, enumVars>>
    /\ UNCHANGED <<poolVars, lastRun, ended, fs, ledgerFile, prog, pc, metadata,
                   paths, wr, runs, normCalls, removedNames, loadedCorrupt,
                   save, hist, rerun>>

\* A skip that removes the source file (faulty variant of IngestSkip).
IngestSkipRemoves ==
    /\ prog = "ingest" /\ pc = "loop" /\ idx <= Len(paths)
    /\ ~HashFailed(calculate_shasum(fs[paths[idx]]))
    /\ AlreadyProcessed(metadata, RefOf(paths[idx]),
                        calculate_shasum(fs[paths[idx]]))
    /\ fs' = [fs EXCEPT ![paths[idx]] = NoFile]
    /\ idx' = idx + 1
    /\ lastLog' = "already_processed"
    /\ UNCHANGED <<crawlVars, enumVars>>
    /\ UNCHANGED <<poolVars, lastRun, ended, ledgerFile, prog, pc, metadata,
                   paths, wr, runs, normCalls, removedNames, loadedCorrupt,
                   save, hist, rerun>>

\* Lines 131-134: an entry for the derived file_name holds the hash just computed.
IngestSkip ==
    /\ InLoop
    /\ ~HashFailed(calculate_shasum(fs[paths[idx]]))
    /\ AlreadyProcessed(metadata, RefOf(paths[idx]),
                        calculate_shasum(fs[paths[idx]]))
    /\ idx' = idx + 1
    /\ lastLog' = "already_processed"
    /\ UNCHANGED <<crawlVars, enumVars>>
    /\ UNCHANGED <<poolVars, lastRun, ended, fs, ledgerFile, prog, pc, metadata,
                   paths, wr, runs, normCalls, removedNames, loadedCorrupt,
                   save, hist, rerun>>

\* A failed conversion that still records an entry, with no hash (faulty variant
\* of IngestConvertFail).
IngestConvertFailRecords ==
    /\ InLoop
    /\ ~HashFailed(calculate_shasum(fs[paths[idx]]))
    /\ ~AlreadyProcessed(metadata, RefOf(paths[idx]),
                         calculate_shasum(fs[paths[idx]]))
    /\ normCalls' = normCalls \cup {[name |-> paths[idx], ok |-> FALSE,
                                  output |-> NoFile]}
    /\ metadata' = Upsert(metadata,
                          NewEntry(RefOf(paths[idx]), None,
                                   sanitize_filename(paths[idx])[2]))
    /\ idx' = idx + 1
    /\ lastLog' = "failed_to_convert"
    /\ UNCHANGED <<crawlVars, enumVars>>
    /\ UNCHANGED <<poolVars, lastRun, ended, fs, ledgerFile, prog, pc, paths,
                   wr, runs, removedNames, loadedCorrupt, save, hist, rerun>>

\* Lines 136-137, 167-168: convert_audio_to_wav returns False; log and continue.
IngestConvertFail ==
    /\ InLoop
    /\ ~HashFailed(calculate_shasum(fs[paths[idx]]))
    /\ ~AlreadyProcessed(metadata, RefOf(paths[idx]),
                         calculate_shasum(fs[paths[idx]]))
    /\ normCalls' = normCalls \cup {[name |-> paths[idx], ok |-> FALSE,
                                  output |-> NoFile]}
    /\ idx' = idx + 1
    /\ lastLog' = "failed_to_convert"
    /\ UNCHANGED <<crawlVars, enumVars>>
    /\ UNCHANGED <<poolVars, lastRun, ended, fs, ledgerFile, prog, pc, metadata,
                   paths, wr, runs, removedNames, loadedCorrupt, save, hist,
                   rerun>>

\* Lines 137-159: the conversion succeeds (the input can be read); hash the
\* output, which may turn out unreadable, build the entry, upsert it in memory
\* and remove the source file.
IngestConvertOk ==
    /\ InLoop
    /\ fs[paths[idx]] \in Contents
    /\ ~HashFailed(calculate_shasum(fs[paths[idx]]))
    /\ ~AlreadyProcessed(metadata, RefOf(paths[idx]),
                         calculate_shasum(fs[paths[idx]]))
    /\ normCalls' = normCalls \cup {[name |-> paths[idx], ok |-> TRUE,
                                  output |-> Normalize(fs[paths[idx]])]}
    /\ \E output \in {Normalize(fs[paths[idx]]), Unreadable} :
          metadata' = Upsert(metadata,
                             NewEntry(RefOf(paths[idx]), calculate_shasum(output),
                                      sanitize_filename(paths[idx])[2]))
    /\ fs' = [fs EXCEPT ![paths[idx]] = NoFile]
    /\ removedNames' = removedNames \cup {paths[idx]}
    /\ pc' = "save_open"
    /\ UNCHANGED <<crawlVars, enumVars>>
    /\ UNCHANGED <<poolVars, lastRun, ended, ledgerFile, prog, paths, idx, wr,
                   runs, lastLog, loadedCorrupt, save, hist, rerun>>

\* Line 173: the loop is over.
IngestDone ==
    /\ prog = "ingest" /\ pc = "loop" /\ idx > Len(paths)
    /\ pc' = "done"
    /\ lastLog' = "audio_processing_complete"
    /\ UNCHANGED <<crawlVars, enumVars>>
    /\ UNCHANGED <<poolVars, lastRun, ended, fs, ledgerFile, prog, metadata,
                   paths, idx, wr, runs, normCalls, removedNames, loadedCorrupt,
                   save, hist, rerun>>

\* process_audio_files returns; the process memory is gone.
IngestExit ==
    /\ prog = "ingest" /\ pc = "done"
    /\ hist' = [valid |-> TRUE, paths |-> paths, file |-> ledgerFile,
                survivors |-> {n \in {paths[i] : i \in 1 .. Len(paths)} :
                                  fs[n] # NoFile}]
    /\ prog' = "none"
    /\ pc' = "idle"
    /\ metadata' = <<>>
    /\ paths' = <<>>
    /\ idx' = 0
    /\ ended' = "returned"
    /\ normCalls' = {}
    /\ UNCHANGED <<crawlVars, enumVars>>
    /\ UNCHANGED <<fs, ledgerFile, wr, runs, lastLog, removedNames,
                   loadedCorrupt, save, rerun, poolVars, lastRun>>

\* -------------------------------------------------------------------- save

\* open(metadata_path, 'w'): the file is truncated before anything is written.
SaveOpen ==
    /\ pc = "save_open"
    /\ ledgerFile' = EmptyLedger
    /\ save' = [active |-> TRUE, old |-> LedgerView(ledgerFile), new |-> metadata]
    /\ wr' = 0
    /\ pc' = "save_write"
    /\ UNCHANGED <<crawlVars, enumVars>>
    /\ UNCHANGED <<poolVars, lastRun, ended, fs, prog, metadata, paths, idx,
                   runs, lastLog, normCalls, removedNames, loadedCorrupt, hist,
                   rerun>>

\* A flush in the middle of the next item's line: a part of it reaches the file.
SaveFlushPartial ==
    /\ pc = "save_write"
    /\ wr < Len(metadata)
    /\ ~ledgerFile.corrupt
    /\ ledgerFile' = PartlyWritten(metadata, wr)
    /\ UNCHANGED <<crawlVars, enumVars>>
    /\ UNCHANGED <<poolVars, lastRun, ended, fs, prog, pc, metadata, paths, idx,
                   wr, runs, lastLog, normCalls, removedNames, loadedCorrupt,
                   save, hist, rerun>>

\* f.write(json.dumps(item) + '\n') for the next item: its line is in the file.
SaveWrite ==
    /\ pc = "save_write"
    /\ wr < Len(metadata)
    /\ wr' = wr + 1
    /\ ledgerFile' = Written(metadata, wr + 1)
    /\ UNCHANGED <<crawlVars, enumVars>>
    /\ UNCHANGED <<poolVars, lastRun, ended, fs, prog, pc, metadata, paths, idx,
                   runs, lastLog, normCalls, removedNames, loadedCorrupt, save,
                   hist, rerun>>

\* The with-block of preprocess.py lines 162-164 ends. Ingest logs "Processed"
\* and goes on with the next candidate (lines 166, 110).
SaveCloseIngest ==
    /\ pc = "save_write"
    /\ wr = Len(metadata)
    /\ prog = "ingest"
    /\ save' = [save EXCEPT !.active = FALSE]
    /\ lastLog' = "processed"
    /\ idx' = idx + 1
    /\ pc' = "loop"
    /\ UNCHANGED <<crawlVars, enumVars>>
    /\ UNCHANGED <<poolVars, lastRun, ended, fs, ledgerFile, prog, metadata,
                   paths, wr, runs, normCalls, removedNames, loadedCorrupt,
                   hist, rerun>>

\* The coordinators that rewrite the ledger after their merge: transcribe.py
\* (save_metadata, lines 97-114) and validate.py (process_dataset, lines 106-109).
Savers == {"transcribe", "validate"}

\* save_metadata returns; transcribe_dataset logs its completion (line 181), as
\* process_dataset of validate.py does after its with-block (line 111).
SaveCloseTranscribe ==
    /\ pc = "save_write"
    /\ wr = Len(metadata)
    /\ prog \in Savers
    /\ save' = [save EXCEPT !.active = FALSE]
    /\ lastLog' = "transcription_completed"
    /\ pc' = "done"
    /\ UNCHANGED <<crawlVars, enumVars>>
    /\ UNCHANGED <<poolVars, lastRun, ended, fs, ledgerFile, prog, metadata,
                   paths, idx, wr, runs, normCalls, removedNames, loadedCorrupt,
                   hist, rerun>>

\* open() or write() raises. In ingest the handler of line 170 logs it and the
\* loop goes on with the in-memory ledger as it is.
SaveErrorIngest ==
    /\ pc \in {"save_open", "save_write"}
    /\ prog = "ingest"
    /\ lastLog' = "error_processing"
    /\ idx' = idx + 1
    /\ pc' = "loop"
    /\ UNCHANGED <<crawlVars, enumVars>>
    /\ UNCHANGED <<poolVars, lastRun, ended, fs, ledgerFile, prog, metadata,
                   paths, wr, runs, normCalls, removedNames, loadedCorrupt,
                   save, hist, rerun>>

\* In transcribe.py save_metadata logs and re-raises (lines 112-114), and so
\* does transcribe_dataset (lines 183-185): the run ends.
SaveErrorTranscribe ==
    /\ pc \in {"save_open", "save_write"}
    /\ prog \in Savers
    /\ lastLog' = "transcription_failed"
    /\ prog' = "none"
    /\ pc' = "idle"
    /\ metadata' = <<>>
    /\ wr' = 0
    /\ ended' = "raised_save"
    /\ overtook' = FALSE
    /\ UNCHANGED <<crawlVars, enumVars>>
    /\ UNCHANGED <<todo, status, results, loaded, lastRun, fs, ledgerFile,
                   paths, idx, runs, normCalls, removedNames, loadedCorrupt,
                   save, hist, rerun>>

\* The process is killed (or the machine stops) at any point of a run; the
\* files stay as they are at that moment.
Crash ==
    /\ prog # "none"
    /\ prog' = "none"
    /\ pc' = "idle"
    /\ metadata' = <<>>
    /\ paths' = <<>>
    /\ idx' = 0
    /\ wr' = 0
    /\ hist' = NoHist
    /\ ended' = "killed"
    /\ normCalls' = {}
    /\ overtook' = FALSE
    /\ UNCHANGED <<crawlVars, enumVars>>
    /\ UNCHANGED <<fs, ledgerFile, runs, lastLog, removedNames, loadedCorrupt,
                   save, rerun, todo, status, results, loaded, lastRun>>

\* ----------------------------------------------------------- transcription

Variants == {"transcribe", "improved"}
Transcribing == prog \in Variants

\* load_metadata (both files): open() raises on a missing file and json.loads
\* on a malformed line; the error is logged and re-raised, and the run ends.
TranscribeLoadFail ==
    /\ pc = "idle"
    /\ runs < MaxRuns
    /\ ~ledgerFile.exists \/ ledgerFile.corrupt
    /\ \E v \in Variants : lastRun' = v
    /\ runs' = runs + 1
    /\ lastLog' = "error_loading_metadata"
    /\ loadedCorrupt' = ledgerFile.corrupt
    /\ ended' = "raised_load"
    /\ normCalls' = {}
    /\ removedNames' = {}
    /\ save' = NoSave
    /\ hist' = NoHist
    /\ todo' = <<>>
    /\ status' = <<>>
    /\ results' = <<>>
    /\ loaded' = <<>>
    /\ overtook' = FALSE
    /\ UNCHANGED <<crawlVars, enumVars>>
    /\ UNCHANGED <<fs, ledgerFile, prog, pc, metadata, paths, idx, wr, rerun>>

\* The state every transcription run starts from, given the work queue: the
\* ledger loaded, the queue dispatched to the pool.
LoadAndDispatch(queue) ==
    /\ pc = "idle"
    /\ ledgerFile.exists /\ ~ledgerFile.corrupt
    /\ metadata' = ledgerFile.lines
    /\ loaded' = ledgerFile.lines
    /\ overtook' = FALSE
    /\ todo' = queue
    /\ status' = [k \in 1 .. Len(queue) |-> "queued"]
    /\ results' = [k \in 1 .. Len(queue) |-> None]
    /\ pc' = "pool"
    /\ lastLog' = "found_files_to_transcribe"
    /\ loadedCorrupt' = FALSE
    /\ ended' = "running"
    /\ normCalls' = {}
    /\ removedNames' = {}
    /\ save' = NoSave
    /\ hist' = NoHist
    /\ UNCHANGED <<crawlVars, enumVars>>
    /\ UNCHANGED <<fs, paths, idx, wr, rerun>>

\* One more of the runs of a behaviour starts in this way.
BeginPool(queue) ==
    /\ runs < MaxRuns
    /\ runs' = runs + 1
    /\ LoadAndDispatch(queue)

\* transcribe.py, transcribe_dataset lines 164-169 and process_transcription
\* lines 129-143: load, select the entries without a transcription, dispatch.
StartTranscribe ==
    /\ BeginPool(ToTranscribe(ledgerFile.lines))
    /\ prog' = "transcribe"
    /\ lastRun' = "transcribe"
    /\ UNCHANGED ledgerFile

\* transcribe_improved.py, lines 138-141 and 102-124: load, select the entries
\* without a text, clear the metadata file (line 116), dispatch.
StartImproved ==
    /\ BeginPool(ToTranscribeImproved(ledgerFile.lines))
    /\ prog' = "improved"
    /\ lastRun' = "improved"
    /\ ledgerFile' = EmptyLedger

Active == {k \in 1 .. Len(status) : status[k] \in {"running", "appending"}}

\* The worker of the k-th dispatched file returns before that of an earlier one.
Overtakes(k) == \E j \in 1 .. (k - 1) : status[j] # "done"

\* The pool hands the next queued path to a free worker.
WorkerStart ==
    /\ Transcribing /\ pc = "pool"
    /\ Cardinality(Active) < PoolSize
    /\ \E k \in 1 .. Len(status) :
          /\ status[k] = "queued"
          /\ \A j \in 1 .. (k - 1) : status[j] # "queued"
          /\ status' = [status EXCEPT ![k] = "running"]
    /\ UNCHANGED <<crawlVars, enumVars>>
    /\ UNCHANGED <<fs, ledgerFile, prog, pc, metadata, paths, idx, wr, runs,
                   lastLog, normCalls, removedNames, loadedCorrupt, save, hist,
                   rerun, todo, results, loaded, overtook, lastRun, ended>>

\* transcribe_single_file lines 39-41, 49-51 (transcribe_and_update_metadata
\* lines 27-29, 50-52): the file is missing or the transcription raises; the
\* worker logs it and returns None.
WorkerReturnNone ==
    /\ Transcribing /\ pc = "pool"
    /\ \E k \in 1 .. Len(status) :
          /\ status[k] = "running"
          /\ status' = [status EXCEPT ![k] = "done"]
          /\ results' = [results EXCEPT ![k] = None]
          /\ overtook' = (overtook \/ Overtakes(k))
    /\ lastLog' = "transcription_error"
    /\ UNCHANGED <<crawlVars, enumVars>>
    /\ UNCHANGED <<fs, ledgerFile, prog, pc, metadata, paths, idx, wr, runs,
                   normCalls, removedNames, loadedCorrupt, save, hist, rerun,
                   todo, loaded, lastRun, ended>>

\* What result['text'].strip() can be for the file of a dispatched entry.
Texts(k) == {TextOf(metadata[todo[k]].file_name), EmptyStr}

\* transcribe_single_file lines 44-47: the worker returns the stripped text.
WorkerReturnText ==
    /\ prog = "transcribe" /\ pc = "pool"
    /\ \E k \in 1 .. Len(status) :
          /\ status[k] = "running"
          /\ status' = [status EXCEPT ![k] = "done"]
          /\ \E t \in Texts(k) : results' = [results EXCEPT ![k] = t]
          /\ overtook' = (overtook \/ Overtakes(k))
    /\ lastLog' = "transcription_complete"
    /\ UNCHANGED <<crawlVars, enumVars>>
    /\ UNCHANGED <<fs, ledgerFile, prog, pc, metadata, paths, idx, wr, runs,
                   normCalls, removedNames, loadedCorrupt, save, hist, rerun,
                   todo, loaded, lastRun, ended>>

\* transcribe_and_update_metadata lines 32-45: the worker has its text and opens
\* the metadata file for appending.
WorkerOpenAppend ==
    /\ prog = "improved" /\ pc = "pool"
    /\ \E k \in 1 .. Len(status) :
          /\ status[k] = "running"
          /\ status' = [status EXCEPT ![k] = "appending"]
          /\ \E t \in Texts(k) : results' = [results EXCEPT ![k] = t]
    /\ lastLog' = "transcription_complete"
    /\ UNCHANGED <<crawlVars, enumVars>>
    /\ UNCHANGED <<fs, ledgerFile, prog, pc, metadata, paths, idx, wr, runs,
                   normCalls, removedNames, loadedCorrupt, save, hist, rerun,
                   todo, loaded, overtook, lastRun, ended>>

\* transcribe_and_update_metadata lines 46-48: the worker writes its entry at the
\* end of the metadata file and returns the entry.
WorkerAppend ==
    /\ prog = "improved" /\ pc = "pool"
    /\ \E k \in 1 .. Len(status) :
          /\ status[k] = "appending"
          /\ status' = [status EXCEPT ![k] = "done"]
          /\ overtook' = (overtook \/ Overtakes(k))
          /\ ledgerFile' =
                [ledgerFile EXCEPT
                    !.exists = TRUE,
                    !.lines = Append(@, WorkerEntry(metadata[todo[k]].file_name,
                                                    results[k]))]
    /\ UNCHANGED <<crawlVars, enumVars>>
    /\ UNCHANGED <<fs, prog, pc, metadata, paths, idx, wr, runs, lastLog,
                   normCalls, removedNames, loadedCorrupt, save, hist, rerun,
                   todo, results, loaded, lastRun, ended>>

AllDone == \A k \in 1 .. Len(status) : status[k] = "done"

\* A merge that stores no transcription (faulty variant of TranscribeMerge).
TranscribeMergeNothing ==
    /\ prog = "transcribe" /\ pc = "pool"
    /\ \A k \in 1 .. Len(status) : status[k] = "done"
    /\ metadata' = metadata
    /\ pc' = "save_open"
    /\ UNCHANGED <<crawlVars, enumVars>>
    /\ UNCHANGED <<fs, ledgerFile, prog, paths, idx, wr, runs, lastLog,
                   normCalls, removedNames, loadedCorrupt, save, hist, rerun,
                   poolVars, lastRun, ended>>

\* process_transcription lines 145-150: every worker has returned; merge the
\* transcriptions into the entries they were dispatched for. save_metadata follows.
TranscribeMerge ==
    /\ prog = "transcribe" /\ pc = "pool"
    /\ AllDone
    /\ metadata' = MergeZip(metadata, todo, results, 1)
    /\ pc' = "save_open"
    /\ UNCHANGED <<crawlVars, enumVars>>
    /\ UNCHANGED <<fs, ledgerFile, prog, paths, idx, wr, runs, lastLog,
                   normCalls, removedNames, loadedCorrupt, save, hist, rerun,
                   poolVars, lastRun, ended>>

\* transcribe_improved.py lines 126-132 and 149-152: the in-memory list is
\* updated; the call of save_metadata is commented out.
ImprovedMerge ==
    /\ prog = "improved" /\ pc = "pool"
    /\ AllDone
    /\ metadata' = MergeUpdate(metadata, todo, results, 1)
    /\ pc' = "done"
    /\ lastLog' = "transcription_completed"
    /\ UNCHANGED <<crawlVars, enumVars>>
    /\ UNCHANGED <<fs, ledgerFile, prog, paths, idx, wr, runs, normCalls,
                   removedNames, loadedCorrupt, save, hist, rerun, poolVars,
                   lastRun, ended>>

\* transcribe_dataset (process_dataset of validate.py) returns.
TranscribeExit ==
    /\ (Transcribing \/ prog \in Savers) /\ pc = "done"
    /\ prog' = "none"
    /\ pc' = "idle"
    /\ metadata' = <<>>
    /\ wr' = 0
    /\ ended' = "returned"
    /\ overtook' = FALSE
    /\ UNCHANGED <<crawlVars, enumVars>>
    /\ UNCHANGED <<fs, ledgerFile, paths, idx, runs, lastLog, normCalls,
                   removedNames, loadedCorrupt, save, hist, rerun, todo, status,
                   results, loaded, lastRun>>

\* ------------------------------------------------------------- validate.py

\* validate.py lines 81-83: open() raises on a missing file and json.loads on
\* a malformed line; process_dataset logs the error and re-raises (113-115).
ValidateLoadFail ==
    /\ pc = "idle"
    /\ runs < MaxRuns
    /\ ~ledgerFile.exists \/ ledgerFile.corrupt
    /\ lastRun' = "validate"
    /\ runs' = runs + 1
    /\ lastLog' = "error_loading_metadata"
    /\ loadedCorrupt' = ledgerFile.corrupt
    /\ ended' = "raised_load"
    /\ normCalls' = {}
    /\ removedNames' = {}
    /\ save' = NoSave
    /\ hist' = NoHist
    /\ todo' = <<>>
    /\ status' = <<>>
    /\ results' = <<>>
    /\ loaded' = <<>>
    /\ overtook' = FALSE
    /\ UNCHANGED <<crawlVars, enumVars>>
    /\ UNCHANGED <<fs, ledgerFile, prog, pc, metadata, paths, idx, wr, rerun>>

\* validate.py lines 81-99 and 53: load, select the entries without a
\* transcription, build their paths and create the pool.
StartValidate ==
    /\ BeginPool(ToTranscribe(ledgerFile.lines))
    /\ prog' = "validate"
    /\ lastRun' = "validate"
    /\ UNCHANGED ledgerFile

\* validate.py lines 55-60: the function handed to pool.imap is a lambda, which
\* cannot be pickled; the first task fails to be sent, the iteration over the
\* results raises, and process_dataset logs and re-raises (lines 113-115). No
\* worker transcribes anything and the metadata file is not opened for writing.
ValidatePoolRaises ==
    /\ prog = "validate" /\ pc = "pool"
    /\ Len(todo) > 0
    /\ lastLog' = "transcription_failed"
    /\ prog' = "none"
    /\ pc' = "idle"
    /\ metadata' = <<>>
    /\ ended' = "raised_pool"
    /\ UNCHANGED <<crawlVars, enumVars>>
    /\ UNCHANGED <<fs, ledgerFile, paths, idx, wr, runs, normCalls, removedNames,
                   loadedCorrupt, save, hist, rerun, poolVars, lastRun>>

\* validate.py lines 57-62 and 101-104: nothing is to be transcribed, so no
\* task is sent; the list of transcriptions is empty and the zip merges nothing.
\* The rewrite of the metadata file follows.
ValidateMerge ==
    /\ prog = "validate" /\ pc = "pool"
    /\ Len(todo) = 0
    /\ metadata' = MergeZip(metadata, todo, results, 1)
    /\ pc' = "save_open"
    /\ UNCHANGED <<crawlVars, enumVars>>
    /\ UNCHANGED <<fs, ledgerFile, prog, paths, idx, wr, runs, lastLog,
                   normCalls, removedNames, loadedCorrupt, save, hist, rerun,
                   poolVars, lastRun, ended>>

\* ------------------------------------------------------------ record store

\* The two crawl programs: the crawler package started by main.py, and the
\* crawl.py script. Each has its own database file, table and download
\* directory, so a behaviour follows the tracker of one of them.
Programs == {"package", "script"}

VideoIds == 1 .. NumVideos

\* Titles an info_dict can carry for a video; the other columns of a row
\* (url, caption_url, duration, ...) are taken from the info_dict in the same way.
Titles == {"Ad A", "Ad A v2"}

\* The lists of entries a search can return; an id may be listed more than once.
SearchResults == UNION {[1 .. n -> VideoIds] : n \in 0 .. MaxSearch}

NoInfo == [video_id |-> 0, title |-> "<none>"]

\* What the last step did with the tracker: nothing, a call of
\* is_video_downloaded with its answer, or a committed record_download with the
\* row it wrote and the row of that id there was before.
NoOp ==
    [op |-> "none", video_id |-> 0, found |-> FALSE, row |-> NoInfo, old |-> NoInfo]
ReadOp(v, found) ==
    [op |-> "read", video_id |-> v, found |-> found, row |-> NoInfo, old |-> NoInfo]
WriteOp(row, old) ==
    [op |-> "write", video_id |-> row.video_id, found |-> FALSE, row |-> row,
     old |-> old]

\* A database file in which init_database has not yet created the table.
NoStore == [table |-> FALSE, rows |-> {}]

\* A table creation that starts from an empty table (faulty variant of CreateTable).
CreateTableAlways(st) == [table |-> TRUE, rows |-> {}]
\* CREATE TABLE IF NOT EXISTS ... ; conn.commit()
CreateTable(st) == IF st.table THEN st ELSE [table |-> TRUE, rows |-> {}]

\* SELECT 1 FROM <table> WHERE video_id = ? ... fetchone() is not None
HasRow(st, v) == \E r \in st.rows : r.video_id = v

\* A check that answers by the rows even when the query raised (faulty variant
\* of is_video_downloaded).
IsVideoDownloadedByRows(st, v, raises) == st.table /\ HasRow(st, v)
\* is_video_downloaded: the answer of the query, and False when connecting or
\* querying raises (as it does when the table does not exist).
is_video_downloaded(st, v, raises) ==
    IF raises \/ ~st.table THEN FALSE ELSE HasRow(st, v)

\* A plain INSERT that keeps the row of the same key (faulty variant of
\* InsertOrReplace).
InsertOnly(st, row) == [st EXCEPT !.rows = @ \cup {row}]
\* INSERT OR REPLACE INTO <table> ... ; conn.commit(): video_id is the primary
\* key, so the row of the same video_id is deleted before the new one goes in.
InsertOrReplace(st, row) ==
    [st EXCEPT !.rows = {r \in @ : r.video_id # row.video_id} \cup {row}]

\* One more download of v has reached "finished"; the count stops at 2, which
\* stands for twice or more.
Finished(done, v) == [done EXCEPT ![v] = IF @ < 2 THEN @ + 1 ELSE @]

\* The row of a video_id, when the table holds one.
RowOf(st, v) ==
    IF HasRow(st, v) THEN CHOOSE r \in st.rows : r.video_id = v ELSE NoInfo

CrawlInit ==
    /\ tracker \in Programs
    /\ store = NoStore
    /\ cprog = "none"
    /\ cpc = "idle"
    /\ entries = <<>>
    /\ ci = 0
    /\ query = 0
    /\ info = NoInfo
    /\ audio = {}
    /\ completed = [v \in VideoIds |-> 0]
    /\ lastOp = NoOp
    /\ cruns = 0
    /\ cended = "never"
    /\ initFailed = FALSE

\* No enumeration is under way: ingest gets its list of paths from its caller.
EnumIdle == tree = {} /\ directories = <<>> /\ merged_paths = NotCalled

\* The pipeline on its own: no crawl program runs.
Init == PipelineInit /\ CrawlInit /\ tracker = "package" /\ EnumIdle

\* The process of a crawl program ends: its memory is gone, the database and
\* the downloaded files stay.
Terminate(how) ==
    /\ cprog' = "none"
    /\ cpc' = "idle"
    /\ entries' = <<>>
    /\ ci' = 0
    /\ query' = 0
    /\ info' = NoInfo
    /\ cended' = how

\* main.py lines 8-12 and crawl.py lines 192-199: the crawl program starts and
\* comes to its call of init_database.
CrawlStart ==
    /\ cpc = "idle"
    /\ cruns < MaxRuns
    /\ cprog' = tracker
    /\ cpc' = "init"
    /\ cruns' = cruns + 1
    /\ completed' = [v \in VideoIds |-> 0]
    /\ lastOp' = NoOp
    /\ cended' = "running"
    /\ initFailed' = FALSE
    /\ UNCHANGED <<tracker, store, entries, ci, query, info, audio>>
    /\ UNCHANGED <<pipelineVars, enumVars>>

\* init_database (db.py lines 11-24, crawl.py lines 27-41): the table is there
\* after it; the script then takes its first query.
InitDatabaseOk ==
    /\ cprog \in Programs /\ cpc = "init"
    /\ store' = CreateTable(store)
    /\ cpc' = "search"
    /\ query' = 1
    /\ lastOp' = NoOp
    /\ UNCHANGED <<tracker, cprog, entries, ci, info, audio, completed, cruns,
                   cended, initFailed>>
    /\ UNCHANGED <<pipelineVars, enumVars>>

\* db.py lines 25-28: connecting or creating raises; the error is logged and
\* exit(1) ends the process (SystemExit passes main.py's `except Exception`).
InitDatabaseFatal ==
    /\ cprog = "package" /\ cpc = "init"
    /\ initFailed' = TRUE
    /\ lastOp' = NoOp
    /\ Terminate("exit1")
    /\ UNCHANGED <<tracker, store, audio, completed, cruns>>
    /\ UNCHANGED <<pipelineVars, enumVars>>

\* crawl.py lines 42-43: connecting or creating raises; the error is logged and
\* init_database returns, so main() goes on to download_commercials.
InitDatabaseLogged ==
    /\ cprog = "script" /\ cpc = "init"
    /\ initFailed' = TRUE
    /\ cpc' = "search"
    /\ query' = 1
    /\ lastOp' = NoOp
    /\ UNCHANGED <<tracker, store, cprog, entries, ci, info, audio, completed,
                   cruns, cended>>
    /\ UNCHANGED <<pipelineVars, enumVars>>

\* ------------------------------------------------------------------- crawl

\* crawler/crawl.py lines 20-24: gather the entries of the search; the loop
\* starts at the first of them (an empty list makes crawl return at once).
Search ==
    /\ cprog = "package" /\ cpc = "search"
    /\ \E e \in SearchResults : entries' = e
    /\ ci' = 1
    /\ cpc' = "loop"
    /\ lastOp' = NoOp
    /\ UNCHANGED <<tracker, store, cprog, query, info, audio, completed, cruns,
                   cended, initFailed>>
    /\ UNCHANGED <<pipelineVars, enumVars>>

CrawlLoop == cprog = "package" /\ cpc = "loop" /\ ci <= Len(entries)

\* crawler/crawl.py lines 26-31: is_video_downloaded answers True; continue.
CrawlSkip ==
    /\ CrawlLoop
    /\ \E raises \in BOOLEAN : is_video_downloaded(store, entries[ci], raises)
    /\ lastOp' = ReadOp(entries[ci], TRUE)
    /\ ci' = ci + 1
    /\ UNCHANGED <<tracker, store, cprog, cpc, entries, query, info, audio,
                   completed, cruns, cended, initFailed>>
    /\ UNCHANGED <<pipelineVars, enumVars>>

\* crawler/crawl.py lines 29, 33-34: is_video_downloaded answers False (no row,
\* or the query raised); the url goes to ydl.download.
CrawlDownload ==
    /\ CrawlLoop
    /\ \E raises \in BOOLEAN : ~is_video_downloaded(store, entries[ci], raises)
    /\ lastOp' = ReadOp(entries[ci], FALSE)
    /\ \E t \in Titles : info' = [video_id |-> entries[ci], title |-> t]
    /\ cpc' = "downloading"
    /\ UNCHANGED <<tracker, store, cprog, entries, ci, query, audio, completed,
                   cruns, cended, initFailed>>
    /\ UNCHANGED <<pipelineVars, enumVars>>

\* A failed download that still records a row (faulty variant of DownloadError).
DownloadErrorRecords ==
    /\ cprog = "package" /\ cpc = "downloading"
    /\ store.table
    /\ store' = InsertOrReplace(store, info)
    /\ ci' = ci + 1
    /\ cpc' = "loop"
    /\ info' = NoInfo
    /\ lastOp' = NoOp
    /\ UNCHANGED <<tracker, cprog, entries, query, audio, completed,
                   cruns, cended, initFailed>>
    /\ UNCHANGED <<pipelineVars, enumVars>>

\* The download fails on its own (network, extraction); with ignoreerrors the
\* downloader reports it and ydl.download returns.
DownloadError ==
    /\ cprog = "package" /\ cpc = "downloading"
    /\ ci' = ci + 1
    /\ cpc' = "loop"
    /\ info' = NoInfo
    /\ lastOp' = NoOp
    /\ UNCHANGED <<tracker, store, cprog, entries, query, audio, completed,
                   cruns, cended, initFailed>>
    /\ UNCHANGED <<pipelineVars, enumVars>>

\* hooks.py lines 39-43: progress_hook, called while the file is downloading or
\* when it has finished, finds a row of the id and raises. The downloader either
\* reports the error and returns (ignoreerrors) or lets it through to main.py,
\* whose handler exits.
HookRaises ==
    /\ cprog = "package" /\ cpc = "downloading"
    /\ \E raises \in BOOLEAN : is_video_downloaded(store, info.video_id, raises)
    /\ lastOp' = ReadOp(info.video_id, TRUE)
    /\ \E st \in {"downloading", "finished"} :
          completed' = IF st = "finished" THEN Finished(completed, info.video_id)
                       ELSE completed
    /\ \/ /\ ci' = ci + 1
          /\ cpc' = "loop"
          /\ info' = NoInfo
          /\ UNCHANGED <<cprog, entries, query, cended>>
       \/ Terminate("exit1")
    /\ UNCHANGED <<tracker, store, audio, cruns, initFailed>>
    /\ UNCHANGED <<pipelineVars, enumVars>>

\* hooks.py lines 41-47 and db.py lines 35-51: status "finished", no row found;
\* record_download commits the row of create_video_info(info_dict).
HookRecord ==
    /\ cprog = "package" /\ cpc = "downloading"
    /\ \E raises \in BOOLEAN : ~is_video_downloaded(store, info.video_id, raises)
    /\ store.table
    /\ completed' = Finished(completed, info.video_id)
    /\ store' = InsertOrReplace(store, info)
    /\ lastOp' = WriteOp(info, RowOf(store, info.video_id))
    /\ ci' = ci + 1
    /\ cpc' = "loop"
    /\ info' = NoInfo
    /\ UNCHANGED <<tracker, cprog, entries, query, audio, cruns, cended,
                   initFailed>>
    /\ UNCHANGED <<pipelineVars, enumVars>>

\* db.py lines 52-54: record_download raises inside; the error is logged and
\* exit(1) ends the process.
HookRecordFatal ==
    /\ cprog = "package" /\ cpc = "downloading"
    /\ \E raises \in BOOLEAN : ~is_video_downloaded(store, info.video_id, raises)
    /\ completed' = Finished(completed, info.video_id)
    /\ lastOp' = ReadOp(info.video_id, FALSE)
    /\ Terminate("exit1")
    /\ UNCHANGED <<tracker, store, audio, cruns, initFailed>>
    /\ UNCHANGED <<pipelineVars, enumVars>>

\* crawler/crawl.py line 25 and main.py line 13: the loop is over, crawl
\* returns and the process ends.
CrawlReturn ==
    /\ cprog = "package" /\ cpc = "loop" /\ ci > Len(entries)
    /\ lastOp' = NoOp
    /\ Terminate("returned")
    /\ UNCHANGED <<tracker, store, audio, completed, cruns, initFailed>>
    /\ UNCHANGED <<pipelineVars, enumVars>>

\* ----------------------------------------------------------- crawl script

\* crawl.py lines 169-172: extract_info(..., download=True) searches the query
\* and downloads every entry it finds, one after the other.
ScriptSearch ==
    /\ cprog = "script" /\ cpc = "search" /\ query <= NumQueries
    /\ \E e \in SearchResults : entries' = e
    /\ ci' = 1
    /\ cpc' = "fetch"
    /\ lastOp' = NoOp
    /\ UNCHANGED <<tracker, store, cprog, query, info, audio, completed, cruns,
                   cended, initFailed>>
    /\ UNCHANGED <<pipelineVars, enumVars>>

\* crawl.py lines 172-174, 189-190: the search gives nothing (info is None) and
\* info.get raises; the error is logged and the next query is taken.
ScriptQueryError ==
    /\ cprog = "script" /\ cpc = "search" /\ query <= NumQueries
    /\ query' = query + 1
    /\ lastOp' = NoOp
    /\ UNCHANGED <<tracker, store, cprog, cpc, entries, ci, info, audio,
                   completed, cruns, cended, initFailed>>
    /\ UNCHANGED <<pipelineVars, enumVars>>

\* crawl.py line 172: the downloader takes the next entry of the search; the
\* tracker is not read.
ScriptDownload ==
    /\ cprog = "script" /\ cpc = "fetch" /\ ci <= Len(entries)
    /\ \E t \in Titles : info' = [video_id |-> entries[ci], title |-> t]
    /\ cpc' = "downloading"
    /\ lastOp' = NoOp
    /\ UNCHANGED <<tracker, store, cprog, entries, ci, query, audio, completed,
                   cruns, cended, initFailed>>
    /\ UNCHANGED <<pipelineVars, enumVars>>

\* The download of the entry fails; with ignoreerrors the next entry is taken.
ScriptDownloadError ==
    /\ cprog = "script" /\ cpc = "downloading"
    /\ ci' = ci + 1
    /\ cpc' = "fetch"
    /\ info' = NoInfo
    /\ lastOp' = NoOp
    /\ UNCHANGED <<tracker, store, cprog, entries, query, audio, completed,
                   cruns, cended, initFailed>>
    /\ UNCHANGED <<pipelineVars, enumVars>>

\* crawl.py lines 125-141 and 45-69: progress_hook with status "finished". It
\* records the download when the audio directory already holds a .wav of the id
\* (record_download may raise inside, which it logs); the FFmpegExtractAudio
\* postprocessor then writes the .wav of this download, or fails.
ScriptHookFinished ==
    /\ cprog = "script" /\ cpc = "downloading"
    /\ completed' = Finished(completed, info.video_id)
    /\ \/ /\ info.video_id \in audio
          /\ store.table
          /\ store' = InsertOrReplace(store, info)
          /\ lastOp' = WriteOp(info, RowOf(store, info.video_id))
       \/ /\ lastOp' = NoOp
          /\ UNCHANGED store
    /\ \E wav \in BOOLEAN :
          audio' = IF wav THEN audio \cup {info.video_id} ELSE audio
    /\ ci' = ci + 1
    /\ cpc' = "fetch"
    /\ info' = NoInfo
    /\ UNCHANGED <<tracker, cprog, entries, query, cruns, cended, initFailed>>
    /\ UNCHANGED <<pipelineVars, enumVars>>

\* extract_info has gone through the entries and returns; the loop of line 174
\* starts.
ScriptFetched ==
    /\ cprog = "script" /\ cpc = "fetch" /\ ci > Len(entries)
    /\ ci' = 1
    /\ cpc' = "review"
    /\ lastOp' = NoOp
    /\ UNCHANGED <<tracker, store, cprog, entries, query, info, audio,
                   completed, cruns, cended, initFailed>>
    /\ UNCHANGED <<pipelineVars, enumVars>>

\* crawl.py lines 174-187: for an entry, ask the tracker and log; both branches
\* continue with the next entry.
ScriptReviewEntry ==
    /\ cprog = "script" /\ cpc = "review" /\ ci <= Len(entries)
    /\ \E raises \in BOOLEAN :
          lastOp' = ReadOp(entries[ci],
                           is_video_downloaded(store, entries[ci], raises))
    /\ ci' = ci + 1
    /\ UNCHANGED <<tracker, store, cprog, cpc, entries, query, info, audio,
                   completed, cruns, cended, initFailed>>
    /\ UNCHANGED <<pipelineVars, enumVars>>

\* crawl.py line 169: the entries of this query are done; the next query.
ScriptNextQuery ==
    /\ cprog = "script" /\ cpc = "review" /\ ci > Len(entries)
    /\ query' = query + 1
    /\ cpc' = "search"
    /\ entries' = <<>>
    /\ ci' = 0
    /\ lastOp' = NoOp
    /\ UNCHANGED <<tracker, store, cprog, info, audio, completed, cruns,
                   cended, initFailed>>
    /\ UNCHANGED <<pipelineVars, enumVars>>

\* crawl.py lines 169, 215: no query is left; download_commercials and main
\* return.
ScriptReturn ==
    /\ cprog = "script" /\ cpc = "search" /\ query > NumQueries
    /\ lastOp' = NoOp
    /\ Terminate("returned")
    /\ UNCHANGED <<tracker, store, audio, completed, cruns, initFailed>>
    /\ UNCHANGED <<pipelineVars, enumVars>>

\* --------------------------------------------------------- specification

Next ==
    \/ StartIngest
    \/ IngestHashFail
    \/ IngestSkip
    \/ IngestConvertFail
    \/ IngestConvertOk
    \/ IngestDone
    \/ IngestExit
    \/ SaveOpen
    \/ SaveFlushPartial
    \/ SaveWrite
    \/ SaveCloseIngest
    \/ SaveCloseTranscribe
    \/ SaveErrorIngest
    \/ SaveErrorTranscribe
    \/ Crash
    \/ TranscribeLoadFail
    \/ StartTranscribe
    \/ StartImproved
    \/ WorkerStart
    \/ WorkerReturnNone
    \/ WorkerReturnText
    \/ WorkerOpenAppend
    \/ WorkerAppend
    \/ TranscribeMerge
    \/ ImprovedMerge
    \/ TranscribeExit

Spec == Init /\ [][Next]_vars

CrawlNext ==
    \/ CrawlStart
    \/ InitDatabaseOk
    \/ InitDatabaseFatal
    \/ InitDatabaseLogged
    \/ Search
    \/ CrawlSkip
    \/ CrawlDownload
    \/ DownloadError
    \/ HookRaises
    \/ HookRecord
    \/ HookRecordFatal
    \/ CrawlReturn
    \/ ScriptSearch
    \/ ScriptQueryError
    \/ ScriptDownload
    \/ ScriptDownloadError
    \/ ScriptHookFinished
    \/ ScriptFetched
    \/ ScriptReviewEntry
    \/ ScriptNextQuery
    \/ ScriptReturn

\* The crawl side on its own: the pipeline is idle and its input directories
\* are empty.
CrawlSpecInit ==
    PipelineInit /\ fs = [n \in InputNames |-> NoFile] /\ CrawlInit /\ EnumIdle

CrawlSpec == CrawlSpecInit /\ [][CrawlNext]_vars

\* ------------------------------------------------ runs on a ledger at hand

\* The inputs whose records the ledger at hand may hold.
LedgerNames == {NameAX, NameB}

\* The record that ingest wrote for an input of the first raw content, with the
\* transcript a later transcription run left in it (or none yet).
StoredRecord(name, t) ==
    [NewEntry(RefOf(name), Sha256(Normalize(1)), sanitize_filename(name)[2])
        EXCEPT !.transcription = t]

StoredRecords ==
    UNION {{StoredRecord(n, EmptyStr), StoredRecord(n, TextOf(RefOf(n)))} :
              n \in LedgerNames}

\* The ledger files that earlier ingest and transcription runs have left: whole
\* files with at most one record per file_name.
ExistingLedgers ==
    {Written(md, Len(md)) :
        md \in {m \in UNION {[1 .. n -> StoredRecords] : n \in 0 .. 2} :
                   UniqueRefs(m)}}

\* Ingest, transcribe.py and validate.py start on such a ledger. Of the inputs,
\* a_x.mp3 is absent, of some raw content, or a copy of the canonical file the
\* ledger speaks of; b.mp3 is absent or of the first raw content.
RerunInit ==
    /\ PipelineIdle
    /\ ledgerFile \in ExistingLedgers
    /\ fs[NameAY] = NoFile
    /\ fs[NameAX] \in {NoFile, Normalize(1)} \cup (1 .. NumClips)
    /\ fs[NameB] \in {NoFile, 1}
    /\ CrawlInit /\ tracker = "package"
    /\ EnumIdle

RerunNext ==
    \/ StartIngest
    \/ IngestHashFail
    \/ IngestSkip
    \/ IngestConvertFail
    \/ IngestConvertOk
    \/ IngestDone
    \/ IngestExit
    \/ SaveOpen
    \/ SaveFlushPartial
    \/ SaveWrite
    \/ SaveCloseIngest
    \/ SaveCloseTranscribe
    \/ SaveErrorIngest
    \/ SaveErrorTranscribe
    \/ Crash
    \/ TranscribeLoadFail
    \/ StartTranscribe
    \/ WorkerStart
    \/ WorkerReturnNone
    \/ WorkerReturnText
    \/ TranscribeMerge
    \/ TranscribeExit
    \/ ValidateLoadFail
    \/ StartValidate
    \/ ValidatePoolRaises
    \/ ValidateMerge

RerunSpec == RerunInit /\ [][RerunNext]_vars

\* ------------------------------------------- transcription run after run

\* transcribe_dataset is invoked once more, as often as one likes; the count of
\* runs stops at MaxRuns, which then stands for that many or more.
InvokeTranscribe ==
    /\ LoadAndDispatch(ToTranscribe(ledgerFile.lines))
    /\ runs' = IF runs < MaxRuns THEN runs + 1 ELSE runs
    /\ prog' = "transcribe"
    /\ lastRun' = "transcribe"
    /\ UNCHANGED ledgerFile

\* The worker of the record of file_name ref returns a text that is not empty.
ReturnsTranscript(ref) ==
    /\ WorkerReturnText
    /\ \E k \in 1 .. Len(status) :
          /\ status[k] = "running" /\ status'[k] = "done"
          /\ metadata[todo[k]].file_name = ref
          /\ ~Falsy(results'[k])

\* Only transcribe.py runs, and nothing else writes the ledger; no input is at
\* hand for ingest.
ConvergeInit ==
    /\ PipelineIdle
    /\ fs = [n \in InputNames |-> NoFile]
    /\ ledgerFile \in ExistingLedgers
    /\ CrawlInit /\ tracker = "package"
    /\ EnumIdle

ConvergeNext ==
    \/ InvokeTranscribe
    \/ WorkerStart
    \/ WorkerReturnNone
    \/ WorkerReturnText
    \/ TranscribeMerge
    \/ SaveOpen
    \/ SaveFlushPartial
    \/ SaveWrite
    \/ SaveCloseTranscribe
    \/ TranscribeExit

\* What the code's sequencing gives: the pool hands every queued path to a
\* worker and every worker returns (pool.imap, transcribe.py lines 73-77); the
\* coordinator goes from the merge through the save to its return (lines
\* 145-181). What the statement assumes: the program is invoked again and again,
\* and a clip that keeps being dispatched is transcribed at some time.
ConvergeFairness ==
    /\ WF_vars(InvokeTranscribe)
    /\ WF_vars(WorkerStart)
    /\ WF_vars(WorkerReturnNone \/ WorkerReturnText)
    /\ WF_vars(TranscribeMerge)
    /\ WF_vars(SaveOpen)
    /\ WF_vars(SaveWrite)
    /\ WF_vars(SaveCloseTranscribe)
    /\ WF_vars(TranscribeExit)
    /\ \A n \in LedgerNames : SF_vars(ReturnsTranscript(RefOf(n)))

ConvergeSpec == ConvergeInit /\ [][ConvergeNext]_vars /\ ConvergeFairness

\* ------------------------------------------------- enumeration on its own

\* preprocess.py line 178: merge_directory_paths is called and returns its list.
MergeReturns ==
    /\ ~merged_paths.called
    /\ ~merge_directory_paths(tree, directories).raised
    /\ merged_paths' = merge_directory_paths(tree, directories)
    /\ UNCHANGED <<tree, directories>>
    /\ UNCHANGED <<pipelineVars, crawlVars>>

\* preprocess.py lines 25-26: one of the paths given is not a directory; the
\* call raises ValueError and nothing is returned.
MergeRaises ==
    /\ ~merged_paths.called
    /\ merge_directory_paths(tree, directories).raised
    /\ merged_paths' = merge_directory_paths(tree, directories)
    /\ UNCHANGED <<tree, directories>>
    /\ UNCHANGED <<pipelineVars, crawlVars>>

EnumNext == MergeReturns \/ MergeRaises

\* A directory tree and a list of directories, before the call.
EnumInit ==
    /\ PipelineInit /\ fs = [n \in InputNames |-> NoFile]
    /\ CrawlInit /\ tracker = "package"
    /\ tree \in Trees
    /\ directories \in DirLists
    /\ merged_paths = NotCalled

EnumSpec == EnumInit /\ [][EnumNext]_vars

\* ------------------------------------------------------------------ claims

\* C1 (as stated): a second ingest run over the same paths, with nothing in
\* between, invokes the normalizer for no candidate and ends with the ledger
\* file exactly as the first run left it.
C1_IngestIdempotent ==
    (prog = "ingest" /\ rerun) =>
        /\ normCalls = {}
        /\ pc = "done" => ledgerFile = hist.file

\* C1 (amended): a second ingest run over the same paths, with nothing in
\* between, invokes the normalizer only for candidates whose source file the
\* first run left in place; when the first run left none, the second run invokes
\* no normalizer and the ledger file stays exactly as the first run left it.
C1_RerunOnlyRetriesSurvivors ==
    (prog = "ingest" /\ rerun) =>
        /\ NormNames \subseteq hist.survivors
        /\ hist.survivors = {} => (normCalls = {} /\ ledgerFile = hist.file)

\* The end of a second run over two or more paths of which the first run left
\* none, with a ledger that the first run filled.
C1_Witness ==
    /\ prog = "ingest" /\ rerun /\ pc = "done"
    /\ hist.survivors = {}
    /\ Len(paths) >= 2
    /\ Len(hist.file.lines) >= 1
    /\ ledgerFile = hist.file

\* C2: the ledger holds at most one record per file_name, in memory and on disk,
\* after any sequence of ingest upserts.
C2_UniqueFileRef == UniqueRefs(metadata) /\ UniqueRefs(ledgerFile.lines)

\* Two inputs that derive the same file_name were both upserted in one run and
\* the ledger was saved.
C2_Witness ==
    /\ prog = "ingest" /\ pc = "loop"
    /\ {NameAX, NameAY} \subseteq removedNames
    /\ Len(metadata) >= 1
    /\ ledgerFile = Written(metadata, Len(metadata))

\* C3: while a save is under way, and after it was interrupted, a reader of the
\* ledger file gets the complete old contents or the complete new contents.
C3_AtomicSave ==
    save.active =>
        \/ LedgerView(ledgerFile) = save.old
        \/ LedgerView(ledgerFile) = [lines |-> save.new, corrupt |-> FALSE]

\* C4: whenever an ingest run has stopped, every input it removed has a record
\* in the ledger file.
C4_RemovedImpliesPersisted ==
    (prog = "none" /\ lastRun = "ingest") =>
        \A n \in removedNames :
            /\ ~ledgerFile.corrupt
            /\ HasEntry(ledgerFile.lines, RefOf(n))

\* C5: when the ledger holds a record for the candidate's file_name whose hash is
\* the hash of the candidate's normalized form, the iteration makes no normalizer
\* invocation and leaves the ledger unchanged.
C5_SkipOnKnownHash ==
    [][(/\ InLoop
        /\ fs[paths[idx]] \in Contents
        /\ AlreadyProcessed(metadata, RefOf(paths[idx]),
                            Sha256(Normalize(fs[paths[idx]]))))
       => (/\ normCalls' = normCalls
           /\ prog' = "ingest" => metadata' = metadata)]_vars

\* C6: when a transcription run has returned, every dispatched file whose worker
\* returned a non-empty text has that text in the ledger file, whatever the other
\* workers returned: in its record, at its place, of the ledger that
\* transcribe.py saved, and in a line of its file_name that a worker of
\* transcribe_improved.py appended.
C6_TranscriptionIsolation ==
    /\ (lastRun = "transcribe" /\ ended = "returned") =>
          \A k \in 1 .. Len(todo) :
              ~Falsy(results[k]) =>
                  /\ todo[k] <= Len(ledgerFile.lines)
                  /\ ledgerFile.lines[todo[k]].file_name = loaded[todo[k]].file_name
                  /\ ledgerFile.lines[todo[k]].transcription = results[k]
    /\ (lastRun = "improved" /\ ended = "returned") =>
          \A k \in 1 .. Len(todo) :
              ~Falsy(results[k]) =>
                  \E i \in 1 .. Len(ledgerFile.lines) :
                      /\ ledgerFile.lines[i].file_name = loaded[todo[k]].file_name
                      /\ ledgerFile.lines[i].text = results[k]

\* A run that returned although one worker returned None, with another file's
\* text in the saved ledger.
C6_Witness ==
    /\ lastRun = "transcribe" /\ ended = "returned"
    /\ \E k, j \in 1 .. Len(todo) :
          /\ results[k] = None
          /\ ~Falsy(results[j])
          /\ ledgerFile.lines[todo[j]].transcription = results[j]

\* The processes that have the ledger file open for writing.
Writers ==
    {k \in 1 .. Len(status) : status[k] = "appending"}
        \cup (IF pc = "save_write" THEN {0} ELSE {})

\* C7: during a transcription run no worker writes the ledger file and at most
\* one writer has it open.
C7_SingleWriter ==
    Transcribing =>
        /\ \A k \in 1 .. Len(status) : status[k] # "appending"
        /\ Cardinality(Writers) <= 1

\* A record as a transcription run may change it: only its transcript and labels.
SameButTranscript(a, b) ==
    /\ a.file_name = b.file_name
    /\ a.shasum = b.shasum
    /\ a.original_filename = b.original_filename

\* C8: when a transcription run is complete, the ledger file holds the records
\* that were loaded, in their order, changed in transcript and labels only.
C8_FullLedgerPersisted ==
    (Transcribing /\ pc = "done") =>
        /\ ~ledgerFile.corrupt
        /\ Len(ledgerFile.lines) = Len(loaded)
        /\ \A i \in 1 .. Len(loaded) :
              i <= Len(ledgerFile.lines)
                  => SameButTranscript(ledgerFile.lines[i], loaded[i])

\* C9: a load that meets a malformed line aborts the run; no coordinator goes on
\* with the ledger it got from such a load.
C9_MalformedLoadAborts ==
    loadedCorrupt => (prog = "none" /\ ended = "raised_load")

\* C10: the iteration in which convert_audio_to_wav returns False changes
\* neither the in-memory ledger nor the ledger file, removes no input file, and
\* leaves the loop at the next candidate.
C10_ConvertFailureLeavesNoTrace ==
    [][(\E c \in normCalls' \ normCalls : ~c.ok)
       => (/\ metadata' = metadata
           /\ ledgerFile' = ledgerFile
           /\ fs' = fs
           /\ prog' = "ingest" /\ pc' = "loop"
           /\ paths' = paths /\ idx' = idx + 1)]_vars

\* A conversion has just failed for an input that is still in place, with a
\* record in the ledger and a further candidate to go.
C10_Witness ==
    /\ prog = "ingest" /\ pc = "loop"
    /\ lastLog = "failed_to_convert"
    /\ idx >= 2 /\ idx <= Len(paths)
    /\ \E c \in normCalls : c.name = paths[idx - 1] /\ ~c.ok
    /\ fs[paths[idx - 1]] # NoFile
    /\ Len(metadata) >= 1
    /\ ledgerFile = Written(metadata, Len(metadata))

\* C11: when a transcription run has returned, every record whose worker
\* returned None is in the ledger file with an empty or absent transcript, so
\* that the next run selects it; and the work queue of a run is exactly the
\* records of the loaded ledger whose transcript is empty or absent.
C11_FailedStayQueued ==
    /\ (lastRun \in Variants /\ ended = "returned") =>
          \A k \in 1 .. Len(todo) :
              results[k] = None =>
                  \E i \in 1 .. Len(ledgerFile.lines) :
                      /\ ledgerFile.lines[i].file_name = loaded[todo[k]].file_name
                      /\ Falsy(IF lastRun = "transcribe"
                               THEN ledgerFile.lines[i].transcription
                               ELSE ledgerFile.lines[i].text)
    /\ Transcribing =>
          \A i \in 1 .. Len(loaded) :
              (\E k \in 1 .. Len(todo) : todo[k] = i)
                  <=> Falsy(IF prog = "transcribe" THEN loaded[i].transcription
                            ELSE loaded[i].text)

\* C12: a record_download that commits leaves exactly one row of its id, which
\* carries the fields it was called with, whether or not the id had a row
\* before; is_video_downloaded for the id (a call that does not raise) then
\* answers True; the rows of the other ids are as they were.
C12_UpsertThenExists ==
    [][lastOp'.op = "write" =>
          /\ is_video_downloaded(store', lastOp'.video_id, FALSE)
          /\ {r \in store'.rows : r.video_id = lastOp'.video_id} = {lastOp'.row}
          /\ {r \in store'.rows : r.video_id # lastOp'.video_id}
                = {r \in store.rows : r.video_id # lastOp'.video_id}
          /\ lastOp'.old = RowOf(store, lastOp'.video_id)]_vars

\* A second record_download of an id has just replaced the row of that id by
\* one with another title, next to the row of another id.
C12_Witness ==
    /\ lastOp.op = "write"
    /\ lastOp.old.video_id = lastOp.video_id
    /\ lastOp.old.title # lastOp.row.title
    /\ lastOp.row \in store.rows
    /\ \E r \in store.rows : r.video_id # lastOp.video_id

\* C13: in a crawl run, every step that passes an item to the downloader reads
\* the tracker for its id in that step, the id has no row at that moment, and no
\* id reaches "finished" more than once in the run.
C13_AtMostOncePerRun ==
    [][/\ (cpc' = "downloading" /\ cpc # "downloading") =>
              /\ lastOp' = ReadOp(info'.video_id, FALSE)
              /\ ~HasRow(store, info'.video_id)
       /\ \A v \in VideoIds : completed'[v] <= 1]_vars

\* C14: a coordinator that starts while the ledger file does not exist goes on
\* with an empty ledger; the start is not an error.
C14_MissingLedgerLoadsEmpty ==
    [][(pc = "idle" /\ ~ledgerFile.exists /\ runs' = runs + 1) =>
          /\ ended' = "running"
          /\ metadata' = <<>>]_vars

\* C15: init_database on a tracker that has its table changes nothing in it:
\* every row stays as it is.
C15_InitIdempotent ==
    [][(cpc = "init" /\ store.table) => store' = store]_vars

\* init_database has just returned in a later run, on a tracker that held rows.
C15_Witness ==
    /\ cprog \in Programs /\ cpc = "search" /\ query = 1 /\ entries = <<>>
    /\ ~initFailed
    /\ cruns >= 2
    /\ store.rows # {}

\* C16: after init_database met an error the process has terminated with
\* exit(1); no search and no download follows.
C16_InitFailureFatal ==
    initFailed => (cprog = "none" /\ cended = "exit1")

\* C17: an iteration that finds a record of the candidate's file_name whose
\* stored hash equals the hash just computed for the candidate calls no
\* normalizer, removes no source file, and changes neither the in-memory ledger
\* nor the ledger file; the loop goes on with the next candidate.
C17_SkipIsNoOp ==
    [][(/\ InLoop
        /\ ~HashFailed(calculate_shasum(fs[paths[idx]]))
        /\ AlreadyProcessed(metadata, RefOf(paths[idx]),
                            calculate_shasum(fs[paths[idx]]))
        /\ prog' = "ingest")
       => (/\ normCalls' = normCalls
           /\ fs' = fs
           /\ removedNames' = removedNames
           /\ metadata' = metadata
           /\ ledgerFile' = ledgerFile
           /\ pc' = "loop" /\ idx' = idx + 1)]_vars

\* A candidate has just been skipped: it is still in place, its record is in
\* the in-memory ledger and in the ledger file, with the hash of its content.
C17_Witness ==
    /\ prog = "ingest" /\ pc = "loop"
    /\ lastLog = "already_processed"
    /\ idx >= 2
    /\ fs[paths[idx - 1]] \in Contents
    /\ AlreadyProcessed(metadata, RefOf(paths[idx - 1]),
                        Sha256(fs[paths[idx - 1]]))
    /\ paths[idx - 1] \notin NormNames
    /\ ledgerFile = Written(metadata, Len(metadata))

\* C18: every stored hash is the hash of a normalized output (or None), and the
\* skip check decides as a comparison of the stored hash with the hash of the
\* candidate's normalized form would.
C18_SkipComparesLikeWithLike ==
    /\ \A i \in 1 .. Len(metadata) :
          \/ metadata[i].shasum = None
          \/ \E c \in Contents : metadata[i].shasum = Sha256(Normalize(c))
    /\ (InLoop /\ fs[paths[idx]] \in Contents) =>
          (AlreadyProcessed(metadata, RefOf(paths[idx]),
                            calculate_shasum(fs[paths[idx]]))
             <=> AlreadyProcessed(metadata, RefOf(paths[idx]),
                                  Sha256(Normalize(fs[paths[idx]]))))

\* name a comes before name b in the sorted processing order.
Before(a, b) ==
    \E i, j \in 1 .. Len(NameOrder) :
        i < j /\ NameOrder[i] = a /\ NameOrder[j] = b

\* The records of a file_name in a ledger.
RecordsOf(md, ref) == SelectSeq(md, LAMBDA e : e.file_name = ref)

\* C19: when two inputs of one run derive the same file_name and both were
\* normalized, the ledger at the end of the run holds exactly one record of that
\* file_name, built from the input that is later in sorted order: it carries
\* that input's title and the hash of that input's normalized output (None when
\* the output could not be hashed); a save that went through has written it.
C19_LastWriteWins ==
    (prog = "ingest" /\ pc = "done") =>
        \A a, b \in normCalls :
            (/\ a.ok /\ b.ok
             /\ RefOf(a.name) = RefOf(b.name)
             /\ Before(a.name, b.name)
             /\ \A c \in normCalls :
                   (c.ok /\ RefOf(c.name) = RefOf(b.name))
                       => ~Before(b.name, c.name))
            => /\ Len(RecordsOf(metadata, RefOf(b.name))) = 1
               /\ RecordsOf(metadata, RefOf(b.name))[1].original_filename
                     = sanitize_filename(b.name)[2]
               /\ RecordsOf(metadata, RefOf(b.name))[1].shasum
                     \in {Sha256(b.output), None}
               /\ (~save.active /\ save.new = metadata)
                     => ledgerFile = Written(metadata, Len(metadata))

\* The end of a run that normalized a_x.mp3 and a_y.mp3, of different content,
\* and saved the ledger with the record built from a_y.mp3.
C19_Witness ==
    /\ prog = "ingest" /\ pc = "done"
    /\ \E a, b \in normCalls :
          /\ a.ok /\ b.ok
          /\ a.name = NameAX /\ b.name = NameAY
          /\ a.output # b.output
          /\ RecordsOf(ledgerFile.lines, RefOf(NameAY))
                = <<NewEntry(RefOf(NameAY), Sha256(b.output),
                             sanitize_filename(NameAY)[2])>>
    /\ ledgerFile = Written(metadata, Len(metadata))

\* C20: after the merge, the record of the k-th dispatched file carries the
\* k-th result when that result is a text, and its loaded transcript when it is
\* not; a text is the transcript of the record's own file; the other fields of
\* the records stay. This holds whatever order the workers returned in.
C20_TranscriptToItsRecord ==
    /\ (prog = "transcribe" /\ pc \in {"save_open", "save_write", "done"}) =>
          /\ Len(metadata) = Len(loaded)
          /\ \A k \in 1 .. Len(todo) :
                /\ SameButTranscript(metadata[todo[k]], loaded[todo[k]])
                /\ metadata[todo[k]].transcription
                      = (IF Falsy(results[k]) THEN loaded[todo[k]].transcription
                         ELSE results[k])
                /\ ~Falsy(results[k])
                      => results[k] = TextOf(loaded[todo[k]].file_name)
    /\ (prog = "improved" /\ pc = "done") =>
          /\ Len(metadata) = Len(loaded)
          /\ \A k \in 1 .. Len(todo) :
                /\ SameButTranscript(metadata[todo[k]], loaded[todo[k]])
                /\ metadata[todo[k]].text
                      = (IF results[k] = None THEN loaded[todo[k]].text
                         ELSE results[k])
                /\ ~Falsy(results[k])
                      => results[k] = TextOf(loaded[todo[k]].file_name)

\* A merge of two transcripts, of two files, whose workers returned in the
\* opposite order of their dispatch.
C20_Witness ==
    /\ prog = "transcribe" /\ pc = "done"
    /\ overtook
    /\ Len(todo) >= 2
    /\ \A k \in 1 .. Len(todo) : ~Falsy(results[k])
    /\ results[1] # results[2]
    /\ \A k \in 1 .. Len(todo) :
          ledgerFile.lines[todo[k]].transcription
              = TextOf(ledgerFile.lines[todo[k]].file_name)

\* C22: an iteration whose candidate cannot be hashed logs the fact, calls no
\* normalizer, changes neither the in-memory ledger nor the ledger file, removes
\* no source file, and leaves the loop at the next candidate; the loop never
\* goes back, and no path is in the list of candidates twice, so the file is
\* tried once in the run.
C22_HashFailureSkips ==
    [][/\ (/\ InLoop
           /\ HashFailed(calculate_shasum(fs[paths[idx]]))
           /\ prog' = "ingest")
          => (/\ lastLog' = "could_not_calculate_hash"
              /\ normCalls' = normCalls
              /\ metadata' = metadata
              /\ ledgerFile' = ledgerFile
              /\ fs' = fs
              /\ removedNames' = removedNames
              /\ pc' = "loop" /\ paths' = paths /\ idx' = idx + 1)
       /\ (prog = "ingest" /\ prog' = "ingest")
          => (/\ paths' = paths
              /\ idx' >= idx
              /\ \A i, j \in 1 .. Len(paths) : paths[i] = paths[j] => i = j)]_vars

\* An unreadable candidate has just been skipped: it is still in place, it was
\* not passed to the normalizer, and a further candidate is to go.
C22_Witness ==
    /\ prog = "ingest" /\ pc = "loop"
    /\ lastLog = "could_not_calculate_hash"
    /\ idx >= 2 /\ idx <= Len(paths)
    /\ fs[paths[idx - 1]] = Unreadable
    /\ paths[idx - 1] \notin NormNames
    /\ removedNames = {}

\* C26: no record with a null hash is in the ledger that ingest holds in memory
\* or in the ledger file: when the normalized output cannot be hashed, nothing
\* is recorded for the file.
C26_EveryRecordHashed ==
    /\ prog = "ingest" =>
          \A i \in 1 .. Len(metadata) : metadata[i].shasum # None
    /\ \A i \in 1 .. Len(ledgerFile.lines) : ledgerFile.lines[i].shasum # None

\* C23: a row comes into the tracker only in the step in which a download of
\* its id reports "finished"; a download that ends without reporting it (it
\* fails, or its hook aborts it) leaves the tracker as it is, so an id that had
\* no row is still answered as not downloaded.
C23_RowOnlyWhenFinished ==
    [][/\ \A r \in store'.rows \ store.rows :
             /\ cpc = "downloading"
             /\ info.video_id = r.video_id
             /\ completed'[r.video_id] >= 1
             /\ completed'[r.video_id] > completed[r.video_id]
                   \/ completed[r.video_id] = 2
       /\ (cpc = "downloading" /\ cpc' # "downloading" /\ completed' = completed
           /\ completed[info.video_id] < 2)
          => /\ store' = store
             /\ ~HasRow(store, info.video_id)
                   => ~is_video_downloaded(store', info.video_id, FALSE)]_vars

\* The package's loop has gone through two entries of different ids: the
\* download of the first failed and left no row, the download of the second
\* reported "finished" and its row has just been written.
C23_Witness ==
    /\ cprog = "package" /\ cpc = "loop"
    /\ Len(entries) = 2 /\ ci = 3
    /\ entries[1] # entries[2]
    /\ lastOp.op = "write" /\ lastOp.video_id = entries[2]
    /\ HasRow(store, entries[2])
    /\ completed[entries[2]] = 1
    /\ ~HasRow(store, entries[1])
    /\ completed[entries[1]] = 0

\* C27: is_video_downloaded answers False whenever its query raises, whatever
\* rows the tracker holds; so at every entry of the crawl loop the step that
\* passes the entry to the downloader is possible, a row of its id or not.
C27_CheckErrorMeansNotDownloaded ==
    /\ \A v \in VideoIds : ~is_video_downloaded(store, v, TRUE)
    /\ CrawlLoop => ENABLED CrawlDownload

\* A download has started for an id whose row is in the tracker: the check of
\* the loop answered False.
C27_Witness ==
    /\ cprog = "package" /\ cpc = "downloading"
    /\ lastOp = ReadOp(info.video_id, FALSE)
    /\ store.table /\ HasRow(store, info.video_id)

\* Position of a path in the ascending order.
RankOf(p) == CHOOSE i \in 1 .. Len(PathOrder) : PathOrder[i] = p

\* C24: a call that returns gives exactly the existing paths below one of the
\* given directories whose suffix, with its case folded, is an audio extension;
\* no path is in the list twice and the list ascends; the call raises
\* ValueError, and returns no list, exactly when one of the given paths is not
\* a directory.
C24_CandidateEnumeration ==
    merged_paths.called =>
        /\ merged_paths.raised
              <=> \E k \in 1 .. Len(directories) :
                      directories[k] \notin tree \/ directories[k] \notin Directories
        /\ merged_paths.raised => merged_paths.paths = <<>>
        /\ ~merged_paths.raised =>
              /\ {merged_paths.paths[i] : i \in 1 .. Len(merged_paths.paths)}
                    = {p \in tree :
                          /\ \E k \in 1 .. Len(directories) :
                                /\ Len(p) > Len(directories[k])
                                /\ SubSeq(p, 1, Len(directories[k])) = directories[k]
                          /\ (suffix(p) \in supported_extensions
                              \/ suffix(p) \in {"WAV", "M4A"})}
              /\ \A i, j \in 1 .. Len(merged_paths.paths) :
                    i < j => RankOf(merged_paths.paths[i])
                                < RankOf(merged_paths.paths[j])

\* A call with a directory and a directory nested in it has returned: the file
\* below both is in the list, next to a file with an upper-case suffix, while a
\* file that is no audio file exists and is left out.
C24_Witness ==
    /\ merged_paths.called /\ ~merged_paths.raised
    /\ directories = << << <<"raw">> >>, << <<"raw">>, <<"sub">> >> >>
    /\ << <<"raw">>, <<"notes", "txt">> >> \in tree
    /\ merged_paths.paths =
          << << <<"raw">>, <<"B", "WAV">> >>,
             << <<"raw">>, <<"a", "mp3">> >>,
             << <<"raw">>, <<"sub">>, <<"c", "flac">> >> >>

\* C25: an ingest step that replaces the record of a file_name whose transcript
\* is not empty, by a record with the same hash as before, keeps the transcript.
C25_TranscriptKeptWhenHashSame ==
    [][(/\ InLoop
        /\ prog' = "ingest"
        /\ metadata' # metadata
        /\ HasEntry(metadata, RefOf(paths[idx]))
        /\ ~Falsy(ExistingEntry(metadata, RefOf(paths[idx])).transcription)
        /\ ExistingEntry(metadata', RefOf(paths[idx])).shasum
              = ExistingEntry(metadata, RefOf(paths[idx])).shasum)
       => ExistingEntry(metadata', RefOf(paths[idx])).transcription
             = ExistingEntry(metadata, RefOf(paths[idx])).transcription]_vars

\* The positions of the ledger a run loaded whose record has a transcript.
FinishedAtLoad == {i \in 1 .. Len(loaded) : ~Falsy(loaded[i].transcription)}

\* C21: in a run of transcribe.py or validate.py, a record that was loaded with
\* a transcript is not in the work queue and stays as loaded in the
\* coordinator's ledger; when the run has saved and returned, the ledger file
\* holds it as loaded, at its place; a run that raised in its pool has left the
\* file as it loaded it.
C21_FinishedRecordsUntouched ==
    /\ prog \in Savers =>
          /\ Len(metadata) = Len(loaded)
          /\ \A i \in FinishedAtLoad :
                /\ \A k \in 1 .. Len(todo) : todo[k] # i
                /\ metadata[i] = loaded[i]
    /\ (lastRun \in Savers /\ (ended = "returned" \/ (prog \in Savers /\ pc = "done")))
          => \A i \in FinishedAtLoad :
                /\ i <= Len(ledgerFile.lines)
                /\ ledgerFile.lines[i] = loaded[i]
    /\ (lastRun \in Savers /\ ended = "raised_pool")
          => ledgerFile = Written(loaded, Len(loaded))

\* The second run of transcribe.py has returned: one record was loaded with its
\* transcript and is in the file as loaded, the other was dispatched and has
\* got its transcript in this run.
C21_Witness ==
    /\ lastRun = "transcribe" /\ ended = "returned" /\ runs = 2
    /\ Len(loaded) = 2
    /\ Cardinality(FinishedAtLoad) = 1
    /\ Len(todo) = 1 /\ ~Falsy(results[1])
    /\ ledgerFile.lines[todo[1]].transcription = results[1]
    /\ \A i \in FinishedAtLoad : ledgerFile.lines[i] = loaded[i]
    /\ ledgerFile = Written(ledgerFile.lines, 2)

\* No record of the ledger file has an empty transcript.
AllTranscribed ==
    \A i \in 1 .. Len(ledgerFile.lines) : ~Falsy(ledgerFile.lines[i].transcription)

\* C28: when transcribe.py is run again and again and nothing else writes the
\* ledger, and every clip that keeps being dispatched is transcribed at some
\* time, then from some time on no record has an empty transcript, every run
\* dispatches nothing, and every run that has saved leaves the ledger file as it
\* loaded it.
C28_TranscriptionConverges ==
    <>[](/\ AllTranscribed
         /\ prog = "transcribe" => todo = <<>>
         /\ (prog = "transcribe" /\ pc = "done")
               => ledgerFile = Written(loaded, Len(loaded)))

\* A later run has saved: both records of the ledger were still without a
\* transcript when it loaded them (the runs before it gave them none), both were
\* dispatched, both workers returned a text, and the file now holds both
\* transcripts.
C28_Witness ==
    /\ prog = "transcribe" /\ pc = "done"
    /\ runs >= 2
    /\ Len(loaded) = 2 /\ Len(todo) = 2
    /\ \A k \in 1 .. Len(todo) : ~Falsy(results[k])
    /\ AllTranscribed
    /\ ledgerFile = Written(metadata, 2)

====
